---- MODULE Spec2Model ----
(***************************************************************************)
(* Model of the GoTools conversion utilities: header normalisation         *)
(* (RenameDuplicates, FixXMLTags, cleanHeader), cell coercion              *)
(* (convertToISO8601) and the DataTable builder (buildDataTable).          *)
(*                                                                         *)
(* A Go string is modelled as a sequence of one-character strings, so that *)
(* formatting, stripping and parsing are computed character by character.  *)
(***************************************************************************)
EXTENDS Integers, Sequences, FiniteSets, TLC

VARIABLES
    input,      \* the []string handed to RenameDuplicates (rewritten in place)
    given,      \* contents of that slice at the time of the call
    hpc,        \* position in the header pass: "call", "renamed", "cleaned"
    value,      \* the cell string handed to convertToISO8601
    out,        \* what convertToISO8601 returned for value
    again,      \* what convertToISO8601 returned for out
    cpc,        \* position in the coercion run: "call", "once", "twice"
    rows,       \* the [][]string behind buildDataTable's pointer
    rowsNil,    \* TRUE when the pointer handed to buildDataTable is nil
    rows0,      \* contents of rows at the time of the call
    rowIndex,   \* number of rows the range loop has consumed
    dataTable,  \* DataTable.Rows built so far
    tpc,        \* position in buildDataTable: "loop", "returned", "panic"
    xmlFiles,   \* number of TargetFiles handed to processFilesConcurrently
    wpc,        \* position of each formatXmlFile goroutine
    wnext,      \* where a goroutine resumes once its pending send is done
    Err,        \* the Err field of each TargetFile ("nil" or "err")
    disk,       \* what the file at each TargetFile's Path holds
    failed,     \* the files in whose goroutine some operation has failed
    result,     \* the buffered channel: pointers queued, oldest first
    closed,     \* TRUE once close(result) has run
    wg,         \* the WaitGroup counter
    mpc,        \* position of processFilesConcurrently
    kpc,        \* position of the goroutine that waits and closes
    logged,     \* per file, what the collecting loop logged, in order
    args,       \* the command line: the --path and --sheet flag values
    env,        \* the surroundings: stdin (pipe or not, its bytes), I/O faults
    stdinRead,  \* TRUE once the tool has read from stdin
    filePath,   \* the path the tool settled on
    code,       \* processingErr.Code
    sheetName,  \* the sheet name getInput returned
    inputErr,   \* TRUE when getInput returned an error
    output,     \* what parseXlsxFile returned as output (<<>> for nil)
    parseErr,   \* TRUE when parseXlsxFile returned an error
    stdout,     \* what has been written to stdout
    xpc,        \* position in the xlsx tool's main
    orig0,      \* the records of the CSV file when the tool starts
    orig,       \* the file at the CSV path: whether it exists, its records
    temp,       \* the temp file: whether it exists, its records
    lineCount,  \* readWriteCsv's lineCount
    fault,      \* the first operation of the CSV tool that failed, or "none"
    ypc         \* position in the CSV tool

vars == <<input, given, hpc, value, out, again, cpc,
          rows, rowsNil, rows0, rowIndex, dataTable, tpc,
          xmlFiles, wpc, wnext, Err, disk, failed, result, closed, wg, mpc,
          kpc, logged, args, env, stdinRead, filePath, code, sheetName,
          inputErr, output, parseErr, stdout, xpc,
          orig0, orig, temp, lineCount, fault, ypc>>

headerVars == <<input, given, hpc>>
coerceVars == <<value, out, again, cpc>>
tableVars  == <<rows, rowsNil, rows0, rowIndex, dataTable, tpc>>
batchVars  == <<xmlFiles, wpc, wnext, Err, disk, failed, result, closed, wg,
                mpc, kpc, logged>>
cliVars    == <<args, env, stdinRead, filePath, code>>
xlsxVars   == <<sheetName, inputErr, output, parseErr, stdout, xpc>>
csvVars    == <<orig0, orig, temp, lineCount, fault, ypc>>
toolVars   == <<batchVars, cliVars, xlsxVars, csvVars>>
notBatch   == <<headerVars, coerceVars, tableVars, cliVars, xlsxVars, csvVars>>
notXlsx    == <<headerVars, coerceVars, tableVars, batchVars, csvVars>>
notCsv     == <<headerVars, coerceVars, tableVars, batchVars, xlsxVars>>

(***************************************************************************)
(* Bounds                                                                  *)
(***************************************************************************)
MaxCols == 3        \* longest header row enumerated exhaustively
MaxTableCols == 2   \* longest header row of an enumerated table
MaxRows == 1        \* most data rows of an enumerated table
MaxFiles == 2       \* most XML files of one batch
MaxRecords == 2     \* most data records of an enumerated CSV file

(***************************************************************************)
(* Strings                                                                 *)
(***************************************************************************)
Digits == <<"0", "1", "2", "3", "4", "5", "6", "7", "8", "9">>

LowerCase == <<"a", "b", "c", "d", "e", "f", "g", "h", "i", "j", "k", "l", "m",
               "n", "o", "p", "q", "r", "s", "t", "u", "v", "w", "x", "y", "z">>

UpperCase == <<"A", "B", "C", "D", "E", "F", "G", "H", "I", "J", "K", "L", "M",
               "N", "O", "P", "Q", "R", "S", "T", "U", "V", "W", "X", "Y", "Z">>

Range(s) == {s[k] : k \in DOMAIN s}

isDigit(c) == c \in Range(Digits)

isLetter(c) == c \in Range(LowerCase) \cup Range(UpperCase)

ToUpper(c) ==
    IF c \in Range(LowerCase)
    THEN UpperCase[CHOOSE k \in DOMAIN LowerCase : LowerCase[k] = c]
    ELSE c

ToLower(c) ==
    IF c \in Range(UpperCase)
    THEN LowerCase[CHOOSE k \in DOMAIN UpperCase : UpperCase[k] = c]
    ELSE c

\* strconv-style decimal rendering of a non-negative integer (the %d verb)
RECURSIVE Itoa(_)
Itoa(n) ==
    IF n < 10 THEN <<Digits[n + 1]>>
    ELSE Itoa(n \div 10) \o <<Digits[(n % 10) + 1]>>

\* fmt.Sprintf("%s_%d", header, count)
Sprintf_s_d(header, count) == header \o <<"_">> \o Itoa(count)

\* strings.ReplaceAll(s, string(char), "")
ReplaceAll(s, char) == SelectSeq(s, LAMBDA c : c # char)

(***************************************************************************)
(* helpers.RenameDuplicates                                                *)
(***************************************************************************)
\* counts[header] of a Go map[string]int: a missing key reads as 0
MapGet(counts, header) ==
    IF header \in DOMAIN counts THEN counts[header] ELSE 0

MapPut(counts, header, n) ==
    [h \in DOMAIN counts \cup {header} |-> IF h = header THEN n ELSE counts[h]]

\* the loop "for i, header := range input", from index i on
RECURSIVE RenameLoop(_, _, _)
RenameLoop(in, i, counts) ==
    IF i > Len(in) THEN in
    ELSE LET header == in[i]
             n      == MapGet(counts, header) + 1
             next   == IF n > 1
                       THEN [in EXCEPT ![i] = Sprintf_s_d(header, n)]
                       ELSE in
         IN  RenameLoop(next, i + 1, MapPut(counts, header, n))

\* variant of the loop that numbers a repeat from the first one (Name_1)
RECURSIVE RenameLoop_countFromOne(_, _, _)
RenameLoop_countFromOne(in, i, counts) ==
    IF i > Len(in) THEN in
    ELSE LET header == in[i]
             n      == MapGet(counts, header) + 1
             next   == IF n > 1
                       THEN [in EXCEPT ![i] = Sprintf_s_d(header, n - 1)]
                       ELSE in
         IN  RenameLoop_countFromOne(next, i + 1, MapPut(counts, header, n))

RenameDuplicates_countFromOne(in) == RenameLoop_countFromOne(in, 1, <<>>)

\* variant of the loop that also renames the first occurrence (Name_1)
RECURSIVE RenameLoop_renameFirst(_, _, _)
RenameLoop_renameFirst(in, i, counts) ==
    IF i > Len(in) THEN in
    ELSE LET header == in[i]
             n      == MapGet(counts, header) + 1
             next   == IF n >= 1
                       THEN [in EXCEPT ![i] = Sprintf_s_d(header, n)]
                       ELSE in
         IN  RenameLoop_renameFirst(next, i + 1, MapPut(counts, header, n))

RenameDuplicates_renameFirst(in) == RenameLoop_renameFirst(in, 1, <<>>)

RenameDuplicates(in) == RenameLoop(in, 1, <<>>)

(***************************************************************************)
(* helpers.FixXMLTags and cleanHeader                                      *)
(***************************************************************************)
\* the grave accent (U+0060), which a TLA+ string literal cannot hold
GraveAccent == "grave"

invalidXmlChars ==
    <<"(", ")", "<", ">", "/", "\\",
      "?", "!", "\"", "'", "@", "#", "$",
      "%", "^", "&", "*", "+", "=", "~",
      GraveAccent, "|", "[", "]", "{", "}", ";",
      ":", ",", ".">>

RECURSIVE FixLoop(_, _)
FixLoop(cleanTag, k) ==
    IF k > Len(invalidXmlChars) THEN cleanTag
    ELSE FixLoop(ReplaceAll(cleanTag, invalidXmlChars[k]), k + 1)

FixXMLTags(tag) == FixLoop(tag, 1)

\* strings.ContainsAny(s, " ")
ContainsSpace(s) == \E k \in DOMAIN s : s[k] = " "

\* characters that continue a word for the title caser (letters, digits, "_")
isWordChar(c) == isLetter(c) \/ isDigit(c) \/ c = "_"

\* TRUE when position k holds the first letter of its word: no earlier letter
\* is joined to it by word characters only
firstLetterOfWord(s, k) ==
    /\ isLetter(s[k])
    /\ ~\E j \in 1..(k - 1) :
          /\ isLetter(s[j])
          /\ \A m \in j..(k - 1) : isWordChar(s[m])

\* cases.Title(language.English).String(s): the first letter of every word in
\* upper case, every other letter in lower case
Title(s) ==
    [k \in DOMAIN s |-> IF firstLetterOfWord(s, k) THEN ToUpper(s[k]) ELSE ToLower(s[k])]

cleanHeader(header) ==
    LET newHeader == IF ContainsSpace(header) THEN Title(header) ELSE header
    IN  FixXMLTags(newHeader)

(***************************************************************************)
(* convertToISO8601: time.Parse against nine layouts, then                 *)
(* Time.Format(time.DateTime)                                              *)
(***************************************************************************)
\* the nine layouts, in the order the code tries them
formats ==
    << <<"0", "1", "-", "0", "2", "-", "0", "6">>,
       <<"0", "1", "-", "0", "2", "-", "0", "6", " ", "1", "5", ":", "0", "4">>,
       <<"0", "1", "-", "0", "2", "-", "0", "6", " ", "1", "5", ":", "0", "4", ":", "0", "5">>,
       <<"1", "/", "0", "2", "/", "0", "6">>,
       <<"1", "/", "0", "2", "/", "0", "6", " ", "1", "5", ":", "0", "4">>,
       <<"1", "/", "0", "2", "/", "0", "6", " ", "1", "5", ":", "0", "4", ":", "0", "5">>,
       <<"0", "1", "/", "0", "2", "/", "0", "6">>,
       <<"0", "1", "/", "0", "2", "/", "0", "6", " ", "1", "5", ":", "0", "4">>,
       <<"0", "1", "/", "0", "2", "/", "0", "6", " ", "1", "5", ":", "0", "4", ":", "0", "5">> >>

Drop(s, n) == SubSeq(s, n + 1, Len(s))

isDigitAt(s, i) == i <= Len(s) /\ isDigit(s[i])

DigitVal(c) == (CHOOSE k \in DOMAIN Digits : Digits[k] = c) - 1

\* time.nextStdChunk at the head of the layout: the element found there and
\* how many layout characters it takes ("" when the head is literal text)
nextStd(layout) ==
    IF Len(layout) >= 2 /\ layout[1] = "0" /\ layout[2] = "1" THEN [std |-> "stdZeroMonth", n |-> 2]
    ELSE IF Len(layout) >= 2 /\ layout[1] = "0" /\ layout[2] = "2" THEN [std |-> "stdZeroDay", n |-> 2]
    ELSE IF Len(layout) >= 2 /\ layout[1] = "0" /\ layout[2] = "4" THEN [std |-> "stdZeroMinute", n |-> 2]
    ELSE IF Len(layout) >= 2 /\ layout[1] = "0" /\ layout[2] = "5" THEN [std |-> "stdZeroSecond", n |-> 2]
    ELSE IF Len(layout) >= 2 /\ layout[1] = "0" /\ layout[2] = "6" THEN [std |-> "stdYear", n |-> 2]
    ELSE IF Len(layout) >= 2 /\ layout[1] = "1" /\ layout[2] = "5" THEN [std |-> "stdHour", n |-> 2]
    ELSE IF Len(layout) >= 1 /\ layout[1] = "1" THEN [std |-> "stdNumMonth", n |-> 1]
    ELSE [std |-> "", n |-> 0]

\* time.getnum: one or two leading digits; exactly two when fixed
getnum(s, fixed) ==
    IF ~isDigitAt(s, 1) THEN [ok |-> FALSE, n |-> 0, rest |-> s]
    ELSE IF ~isDigitAt(s, 2)
         THEN IF fixed THEN [ok |-> FALSE, n |-> 0, rest |-> s]
              ELSE [ok |-> TRUE, n |-> DigitVal(s[1]), rest |-> Drop(s, 1)]
    ELSE [ok |-> TRUE, n |-> DigitVal(s[1]) * 10 + DigitVal(s[2]), rest |-> Drop(s, 2)]

\* time.atoi on the two characters of a stdYear field: an optional sign, then
\* digits only
atoi2(p) ==
    IF p[1] \in {"-", "+"}
    THEN IF isDigit(p[2])
         THEN [ok |-> TRUE, n |-> IF p[1] = "-" THEN 0 - DigitVal(p[2]) ELSE DigitVal(p[2])]
         ELSE [ok |-> FALSE, n |-> 0]
    ELSE IF isDigit(p[1]) /\ isDigit(p[2])
         THEN [ok |-> TRUE, n |-> DigitVal(p[1]) * 10 + DigitVal(p[2])]
         ELSE [ok |-> FALSE, n |-> 0]

\* time.cutspace
RECURSIVE cutspace(_)
cutspace(s) == IF Len(s) > 0 /\ s[1] = " " THEN cutspace(Tail(s)) ELSE s

\* number of characters of a fractional second (".ddd" or ",ddd") that follow
\* the seconds although the layout has none
RECURSIVE fracLen(_, _)
fracLen(s, n) == IF isDigitAt(s, n + 1) THEN fracLen(s, n + 1) ELSE n

isLeap(year) == year % 4 = 0 /\ (year % 100 # 0 \/ year % 400 = 0)

daysIn(m, year) ==
    IF m = 2 THEN (IF isLeap(year) THEN 29 ELSE 28)
    ELSE IF m \in {4, 6, 9, 11} THEN 30 ELSE 31

ZeroTime == [year |-> 0, month |-> -1, day |-> -1, hour |-> 0, min |-> 0, sec |-> 0]

Failed == [ok |-> FALSE, t |-> ZeroTime]

\* the loop of time.parse over the rest of the layout and the rest of the value
RECURSIVE parseLoop(_, _, _)
parseLoop(layout, val, t) ==
    LET c == nextStd(layout) IN
    IF Len(layout) = 0
    THEN IF Len(val) # 0 THEN Failed                        \* extra text
         ELSE IF t.day < 1 \/ t.day > daysIn(t.month, t.year) THEN Failed
         ELSE [ok |-> TRUE, t |-> t]
    ELSE IF c.std = ""
    THEN \* literal text of the layout (time.skip)
         IF layout[1] = " "
         THEN IF Len(val) > 0 /\ val[1] # " " THEN Failed
              ELSE parseLoop(cutspace(layout), cutspace(val), t)
         ELSE IF Len(val) = 0 \/ val[1] # layout[1] THEN Failed
              ELSE parseLoop(Tail(layout), Tail(val), t)
    ELSE IF c.std = "stdYear"
    THEN IF Len(val) < 2 THEN Failed
         ELSE LET y == atoi2(SubSeq(val, 1, 2)) IN
              IF ~y.ok THEN Failed
              ELSE parseLoop(Drop(layout, c.n), Drop(val, 2),
                             [t EXCEPT !.year = IF y.n >= 69 THEN y.n + 1900 ELSE y.n + 2000])
    ELSE LET g == getnum(val, c.std \in {"stdZeroMonth", "stdZeroDay", "stdZeroMinute", "stdZeroSecond"}) IN
         IF ~g.ok THEN Failed
         ELSE IF c.std \in {"stdZeroMonth", "stdNumMonth"}
         THEN IF g.n <= 0 \/ 12 < g.n THEN Failed
              ELSE parseLoop(Drop(layout, c.n), g.rest, [t EXCEPT !.month = g.n])
         ELSE IF c.std = "stdZeroDay"
         THEN parseLoop(Drop(layout, c.n), g.rest, [t EXCEPT !.day = g.n])
         ELSE IF c.std = "stdHour"
         THEN IF g.n < 0 \/ 24 <= g.n THEN Failed
              ELSE parseLoop(Drop(layout, c.n), g.rest, [t EXCEPT !.hour = g.n])
         ELSE IF c.std = "stdZeroMinute"
         THEN IF g.n < 0 \/ 60 <= g.n THEN Failed
              ELSE parseLoop(Drop(layout, c.n), g.rest, [t EXCEPT !.min = g.n])
         ELSE \* stdZeroSecond
              IF g.n < 0 \/ 60 <= g.n THEN Failed
              ELSE LET rest == IF Len(g.rest) >= 2 /\ g.rest[1] \in {".", ","} /\ isDigitAt(g.rest, 2)
                               THEN Drop(g.rest, fracLen(g.rest, 2))
                               ELSE g.rest
                   IN  parseLoop(Drop(layout, c.n), rest, [t EXCEPT !.sec = g.n])

\* time.Parse(format, value): ok is FALSE where the code gets a non-nil error
Parse(format, val) == parseLoop(format, val, ZeroTime)

Pad2(n) == <<Digits[(n \div 10) + 1], Digits[(n % 10) + 1]>>

Pad4(n) == Pad2(n \div 100) \o Pad2(n % 100)

\* variant of the output layout with a two-digit year ("06-01-02 15:04:05")
FormatDateTime_shortYear(t) ==
    Pad2(t.year % 100) \o <<"-">> \o Pad2(t.month) \o <<"-">> \o Pad2(t.day) \o <<" ">>
        \o Pad2(t.hour) \o <<":">> \o Pad2(t.min) \o <<":">> \o Pad2(t.sec)

\* parsedDate.Format(time.DateTime), the layout "2006-01-02 15:04:05"
FormatDateTime(t) ==
    Pad4(t.year) \o <<"-">> \o Pad2(t.month) \o <<"-">> \o Pad2(t.day) \o <<" ">>
        \o Pad2(t.hour) \o <<":">> \o Pad2(t.min) \o <<":">> \o Pad2(t.sec)

\* "for _, format := range formats", from layout k on
RECURSIVE convertLoop(_, _)
convertLoop(val, k) ==
    IF k > Len(formats) THEN val
    ELSE LET r == Parse(formats[k], val) IN
         IF r.ok THEN FormatDateTime(r.t) ELSE convertLoop(val, k + 1)

\* variant that never tries the first layout
convertToISO8601_skipFirstLayout(val) == convertLoop(val, 2)

convertToISO8601(val) == convertLoop(val, 1)


(***************************************************************************)
(* Header rows the header pass is run on                                   *)
(***************************************************************************)
Name       == <<"N", "a", "m", "e">>
Name_2     == <<"N", "a", "m", "e", "_", "2">>
Age        == <<"A", "g", "e">>
Age_2      == <<"A", "g", "e", "_", "2">>
AgeQuery   == <<"A", "g", "e", "?">>
City       == <<"C", "i", "t", "y">>
firstName  == <<"f", "i", "r", "s", "t", " ", "n", "a", "m", "e">>
HelloRaw   == <<"<", "H", "e", "l", "l", "o", " ", "W", "o", "r", "l", "d", "!", ">">>
HelloWorld == <<"H", "e", "l", "l", "o", "W", "o", "r", "l", "d">>
Empty      == <<>>

HeaderNames == {Name, Name_2, Age, AgeQuery, City, firstName, HelloRaw, Empty}

SeqsUpTo(S, n) == UNION {[1..k -> S] : k \in 0..n}

ExampleRow == <<Name, Age, Name, City, Age>>

ExampleRenamed == <<Name, Age, Name_2, City, Age_2>>

HeaderRows == SeqsUpTo(HeaderNames, MaxCols) \cup {ExampleRow}

IdleHeaders == input = <<>> /\ given = <<>> /\ hpc = "idle"

IdleCoerce == value = <<>> /\ out = <<>> /\ again = <<>> /\ cpc = "idle"

IdleTable ==
    /\ rows = <<>> /\ rowsNil = FALSE /\ rows0 = <<>>
    /\ rowIndex = 0 /\ dataTable = <<>> /\ tpc = "idle"

IdleBatch ==
    /\ xmlFiles = 0 /\ wpc = <<>> /\ wnext = <<>> /\ Err = <<>>
    /\ disk = <<>> /\ failed = {} /\ result = <<>> /\ closed = FALSE
    /\ wg = 0 /\ mpc = "idle" /\ kpc = "idle" /\ logged = <<>>

IdleCli ==
    /\ args = <<>> /\ env = <<>> /\ stdinRead = FALSE /\ filePath = <<>>
    /\ code = 0

IdleXlsx ==
    /\ sheetName = <<>> /\ inputErr = FALSE /\ output = <<>>
    /\ parseErr = FALSE /\ stdout = <<>> /\ xpc = "idle"

IdleCsv ==
    /\ orig0 = <<>> /\ orig = <<>> /\ temp = <<>> /\ lineCount = 0
    /\ fault = "none" /\ ypc = "idle"

IdleTools == IdleBatch /\ IdleCli /\ IdleXlsx /\ IdleCsv

(***************************************************************************)
(* The header pass: RenameDuplicates on the header row, then cleanHeader   *)
(* on every entry of the slice it returned (buildDataTable, row 0)         *)
(***************************************************************************)
InitHeaders ==
    /\ input \in HeaderRows
    /\ given = input
    /\ hpc = "call"
    /\ IdleCoerce
    /\ IdleTable
    /\ IdleTools

\* headerRow := RenameDuplicates((*rows)[0])
CallRenameDuplicates ==
    /\ hpc = "call"
    /\ input' = RenameDuplicates(input)
    /\ hpc' = "renamed"
    /\ UNCHANGED <<given, coerceVars, tableVars, toolVars>>

\* for headerIndex := range headerRow { cleanHeader(&headerRow[headerIndex]) }
CallCleanHeaders ==
    /\ hpc = "renamed"
    /\ input' = [headerIndex \in DOMAIN input |-> cleanHeader(input[headerIndex])]
    /\ hpc' = "cleaned"
    /\ UNCHANGED <<given, coerceVars, tableVars, toolVars>>

NextHeaders == CallRenameDuplicates \/ CallCleanHeaders

SpecHeaders == InitHeaders /\ [][NextHeaders]_vars

(***************************************************************************)
(* Properties of the header pass                                           *)
(***************************************************************************)
NoTwoEqual(s) == \A i, j \in DOMAIN s : i # j => s[i] # s[j]

\* how many of the entries 1..i of s equal s[i]
Occurrence(s, i) == Cardinality({j \in 1..i : s[j] = s[i]})

\* C1: the slice RenameDuplicates returns never holds two equal entries,
\* whatever the header row, rows that already hold a name h_k included.
C1_RenamedHasNoTwoEqual ==
    hpc = "renamed" => NoTwoEqual(input)

\* C2: RenameDuplicates leaves the first occurrence of a header as it was and
\* turns its k-th occurrence (k >= 2) into header_k.
C2_KthOccurrenceGetsSuffix ==
    hpc = "renamed" =>
        /\ Len(input) = Len(given)
        /\ \A i \in DOMAIN given :
              input[i] = IF Occurrence(given, i) = 1
                         THEN given[i]
                         ELSE given[i] \o <<"_">> \o Itoa(Occurrence(given, i))

C2_Witness ==
    hpc = "renamed" /\ given = ExampleRow /\ input = ExampleRenamed

\* C3: a header row without two equal entries comes back from RenameDuplicates
\* unchanged: same length, same entries, same order.
C3_NoDuplicatesUnchanged ==
    (hpc = "renamed" /\ NoTwoEqual(given)) => input = given

C3_Witness ==
    hpc = "renamed" /\ NoTwoEqual(given) /\ Len(given) >= 2 /\ input = given

NoSpaceNoInvalid(s) ==
    \A k \in DOMAIN s : s[k] # " " /\ s[k] \notin Range(invalidXmlChars)

\* C4: a header sanitized by cleanHeader holds no space and none of the
\* invalid characters; "<Hello World!>" becomes "HelloWorld".
C4_CleanedHasNoSpaceNoInvalid ==
    hpc = "cleaned" =>
        \A i \in DOMAIN input :
            /\ NoSpaceNoInvalid(input[i])
            /\ (given[i] = HelloRaw /\ Occurrence(given, i) = 1) => input[i] = HelloWorld

\* C5: the element names buildDataTable ends up with (RenameDuplicates, then
\* cleanHeader on each name) are pairwise distinct for every header row.
C5_CleanedNamesDistinct ==
    hpc = "cleaned" => NoTwoEqual(input)

(***************************************************************************)
(* Cell strings the coercion is run on: month, day and year fields joined  *)
(* by separators, with or without a time of day, and strings that are not  *)
(* dates                                                                   *)
(***************************************************************************)
MonthFields == { <<"1">>, <<"0", "1">>, <<"0", "2">>, <<"1", "2">>, <<"1", "3">> }

DayFields == { <<"2">>, <<"0", "2">>, <<"2", "9">>, <<"3", "0">>, <<"3", "2">> }

YearFields == { <<"0", "6">>, <<"6", "9">>, <<"2", "4">>, <<"2", "0", "0", "6">>, <<"-", "5">> }

Separators == {"-", "/"}

TimeFields ==
    { <<>>,
      <<" ", "1", "5", ":", "0", "4">>,
      <<" ", "1", "5", ":", "0", "4", ":", "0", "5">>,
      <<" ", " ", "1", "5", ":", "0", "4">>,
      <<" ", "5", ":", "0", "4">>,
      <<" ", "2", "4", ":", "0", "0">>,
      <<" ", "1", "5", ":", "0", "4", ":", "6", "0">>,
      <<" ", "1", "5", ":", "0", "4", ":", "0", "5", ".", "5">>,
      <<" ">> }

DateStrings ==
    { m \o <<s1>> \o d \o <<s2>> \o y \o t :
        m \in MonthFields, s1 \in Separators, d \in DayFields,
        s2 \in Separators, y \in YearFields, t \in TimeFields }

OtherStrings ==
    { <<>>,
      <<"v", "1">>,
      <<"1", "2">>,
      <<"2", "0", "0", "6", "-", "0", "1", "-", "0", "2">>,
      <<"2", "0", "0", "6", "-", "0", "1", "-", "0", "2", " ", "1", "5", ":", "0", "4", ":", "0", "5">> }

CellStrings == DateStrings \cup OtherStrings

InitCoerce ==
    /\ value \in CellStrings
    /\ out = <<>>
    /\ again = <<>>
    /\ cpc = "call"
    /\ IdleHeaders
    /\ IdleTable
    /\ IdleTools

\* columnValue := convertToISO8601(columns[columnIndex])
CallConvert ==
    /\ cpc = "call"
    /\ out' = convertToISO8601(value)
    /\ cpc' = "once"
    /\ UNCHANGED <<value, again, headerVars, tableVars, toolVars>>

\* the coercion applied to its own output
CallConvertAgain ==
    /\ cpc = "once"
    /\ again' = convertToISO8601(out)
    /\ cpc' = "twice"
    /\ UNCHANGED <<value, out, headerVars, tableVars, toolVars>>

NextCoerce == CallConvert \/ CallConvertAgain

SpecCoerce == InitCoerce /\ [][NextCoerce]_vars

(***************************************************************************)
(* Properties of the coercion                                              *)
(***************************************************************************)
\* the layouts, by position in the list, that parse the string
Matching(val) == {k \in DOMAIN formats : Parse(formats[k], val).ok}

FirstMatching(val) == CHOOSE k \in Matching(val) : \A j \in Matching(val) : k <= j

\* C6: convertToISO8601 is idempotent: applied to its own output it returns
\* that output.
C6_ConvertIdempotent ==
    cpc = "twice" => again = out

C6_Witness ==
    cpc = "twice" /\ out # value /\ again = out

\* C7: convertToISO8601 always returns a string: the input unchanged when none
\* of the nine layouts parses it, otherwise the reformatting of what the first
\* layout, in list order, that parses it has read.
C7_FirstLayoutOrIdentity ==
    cpc = "once" =>
        IF Matching(value) = {}
        THEN out = value
        ELSE out = FormatDateTime(Parse(formats[FirstMatching(value)], value).t)

C7_Witness ==
    /\ cpc = "once"
    /\ Cardinality(Matching(value)) >= 2
    /\ FirstMatching(value) > 1
    /\ out # value

(***************************************************************************)
(* buildDataTable over a *[][]string                                       *)
(***************************************************************************)
\* the loop "for columnIndex := range (*rows)[rowIndex]", from columnIndex on:
\* panic is TRUE where (*rows)[0][columnIndex] is an index out of range
RECURSIVE dataRowLoop(_, _, _, _)
dataRowLoop(header, row, columnIndex, Columns) ==
    IF columnIndex > Len(row) THEN [panic |-> FALSE, Columns |-> Columns]
    ELSE IF columnIndex > Len(header) THEN [panic |-> TRUE, Columns |-> Columns]
    ELSE dataRowLoop(header, row, columnIndex + 1,
                     Append(Columns, [XMLName |-> header[columnIndex],
                                      Value   |-> row[columnIndex]]))

\* variant that stops at the last header instead of indexing past it
RECURSIVE dataRowLoop_truncate(_, _, _, _)
dataRowLoop_truncate(header, row, columnIndex, Columns) ==
    IF columnIndex > Len(row) \/ columnIndex > Len(header)
    THEN [panic |-> FALSE, Columns |-> Columns]
    ELSE dataRowLoop_truncate(header, row, columnIndex + 1,
                              Append(Columns, [XMLName |-> header[columnIndex],
                                               Value   |-> row[columnIndex]]))

buildDataRow_truncate(header, row) == dataRowLoop_truncate(header, row, 1, <<>>)

\* variant that names a column after the header it finds by the cell's text
RECURSIVE dataRowLoop_byName(_, _, _, _)
dataRowLoop_byName(header, row, columnIndex, Columns) ==
    IF columnIndex > Len(row) THEN [panic |-> FALSE, Columns |-> Columns]
    ELSE IF columnIndex > Len(header) THEN [panic |-> TRUE, Columns |-> Columns]
    ELSE LET first == CHOOSE j \in DOMAIN row : row[j] = row[columnIndex] /\
                          \A m \in DOMAIN row : row[m] = row[columnIndex] => j <= m
         IN  dataRowLoop_byName(header, row, columnIndex + 1,
                                Append(Columns, [XMLName |-> header[first],
                                                 Value   |-> row[columnIndex]]))

buildDataRow_byName(header, row) == dataRowLoop_byName(header, row, 1, <<>>)

\* the DataRow built from one data row
buildDataRow(header, row) == dataRowLoop(header, row, 1, <<>>)

column1 == <<"c", "o", "l", "u", "m", "n", "1">>
column2 == <<"c", "o", "l", "u", "m", "n", "2">>
v1      == <<"v", "1">>
v2      == <<"v", "2">>

TableNames == {column1, firstName}

CellValues == {v1, v2}

row1Value1 == <<"r", "o", "w", "1", "V", "a", "l", "u", "e", "1">>
row1Value2 == <<"r", "o", "w", "1", "V", "a", "l", "u", "e", "2">>
row2Value1 == <<"r", "o", "w", "2", "V", "a", "l", "u", "e", "1">>
row2Value2 == <<"r", "o", "w", "2", "V", "a", "l", "u", "e", "2">>

\* the table of TestBuildDataTable and the DataTable the test wants for it
ExampleTable ==
    << <<column1, column2>>,
       <<row1Value1, row1Value2>>,
       <<row2Value1, row2Value2>> >>

ExampleWant ==
    << <<[XMLName |-> column1, Value |-> row1Value1],
         [XMLName |-> column2, Value |-> row1Value2]>>,
       <<[XMLName |-> column1, Value |-> row2Value1],
         [XMLName |-> column2, Value |-> row2Value2]>> >>

\* no row at all; a header row and up to MaxRows data rows, each with up to one
\* cell more than the longest header row; the table of the test
Tables ==
    {<<>>, ExampleTable} \cup
    { <<h>> \o d : h \in SeqsUpTo(TableNames, MaxTableCols),
                   d \in SeqsUpTo(SeqsUpTo(CellValues, MaxTableCols + 1), MaxRows) }

InitTable ==
    /\ rowsNil \in BOOLEAN
    /\ rows \in (IF rowsNil THEN {<<>>} ELSE Tables)
    /\ rows0 = rows
    /\ rowIndex = 0
    /\ dataTable = <<>>
    /\ tpc = "loop"
    /\ IdleHeaders
    /\ IdleCoerce
    /\ IdleTools

\* variant without the nil check: the range loop dereferences the nil pointer
BuildNilReturn_noCheck ==
    /\ tpc = "loop"
    /\ rowsNil
    /\ tpc' = "panic"
    /\ UNCHANGED <<rows, rowsNil, rows0, rowIndex, dataTable, headerVars, coerceVars, toolVars>>

\* if rows == nil { return dataTable }
BuildNilReturn ==
    /\ tpc = "loop"
    /\ rowsNil
    /\ tpc' = "returned"
    /\ UNCHANGED <<rows, rowsNil, rows0, rowIndex, dataTable, headerVars, coerceVars, toolVars>>

\* rowIndex == 0: RenameDuplicates rewrites (*rows)[0] in place and cleanHeader
\* then rewrites every entry of the same slice
BuildHeaderRow_copy ==
    /\ tpc = "loop"
    /\ ~rowsNil
    /\ rowIndex = 0
    /\ rowIndex < Len(rows)
    /\ rows' = rows
    /\ rowIndex' = 1
    /\ UNCHANGED <<rowsNil, rows0, dataTable, tpc, headerVars, coerceVars, toolVars>>

BuildHeaderRow ==
    /\ tpc = "loop"
    /\ ~rowsNil
    /\ rowIndex = 0
    /\ rowIndex < Len(rows)
    /\ LET headerRow == RenameDuplicates(rows[1])
       IN  rows' = [rows EXCEPT ![1] =
                       [headerIndex \in DOMAIN headerRow |-> cleanHeader(headerRow[headerIndex])]]
    /\ rowIndex' = 1
    /\ UNCHANGED <<rowsNil, rows0, dataTable, tpc, headerVars, coerceVars, toolVars>>

\* rowIndex > 0: one DataRow per data row, appended to dataTable.Rows
BuildDataRow ==
    /\ tpc = "loop"
    /\ ~rowsNil
    /\ rowIndex > 0
    /\ rowIndex < Len(rows)
    /\ LET dataRow == buildDataRow(rows[1], rows[rowIndex + 1])
       IN  IF dataRow.panic
           THEN /\ tpc' = "panic"
                /\ UNCHANGED <<rowIndex, dataTable>>
           ELSE /\ dataTable' = Append(dataTable, dataRow.Columns)
                /\ rowIndex' = rowIndex + 1
                /\ tpc' = tpc
    /\ UNCHANGED <<rows, rowsNil, rows0, headerVars, coerceVars, toolVars>>

\* the range loop is over: return dataTable
BuildReturn ==
    /\ tpc = "loop"
    /\ ~rowsNil
    /\ rowIndex = Len(rows)
    /\ tpc' = "returned"
    /\ UNCHANGED <<rows, rowsNil, rows0, rowIndex, dataTable, headerVars, coerceVars, toolVars>>

NextTable == BuildNilReturn \/ BuildHeaderRow \/ BuildDataRow \/ BuildReturn

SpecTable == InitTable /\ [][NextTable]_vars

(***************************************************************************)
(* Properties of buildDataTable                                            *)
(***************************************************************************)
\* the header row as buildDataTable normalizes it
Normalized(header) ==
    [j \in DOMAIN header |-> cleanHeader(RenameDuplicates(header)[j])]

\* the data rows (by position in the table) with more cells than the header row
LongRows(table) == {r \in 2..Len(table) : Len(table[r]) > Len(table[1])}

\* C8: buildDataTable returns an empty Document and raises no error when its
\* row source is nil or holds no rows.
C8_NilOrEmptyGivesEmptyDocument ==
    (tpc # "idle" /\ (rowsNil \/ Len(rows0) = 0)) =>
        /\ tpc \in {"loop", "returned"}
        /\ dataTable = <<>>

C8_Witness ==
    tpc = "returned" /\ rowsNil /\ dataTable = <<>>

\* C9: when no data row is longer than the header row, buildDataTable returns
\* one Record per data row, in input order, whose j-th pair is (normalized
\* header j, cell j of that row): the pairing is by position only.
C9_RecordsPairByPosition ==
    (tpc = "returned" /\ ~rowsNil /\ Len(rows0) > 0 /\ LongRows(rows0) = {}) =>
        /\ Len(dataTable) = Len(rows0) - 1
        /\ \A r \in DOMAIN dataTable :
              /\ Len(dataTable[r]) = Len(rows0[r + 1])
              /\ \A j \in DOMAIN dataTable[r] :
                    /\ dataTable[r][j].XMLName = Normalized(rows0[1])[j]
                    /\ dataTable[r][j].Value = rows0[r + 1][j]

C9_Witness ==
    tpc = "returned" /\ rows0 = ExampleTable /\ dataTable = ExampleWant

\* C10: a data row with more cells than the header row is neither truncated,
\* padded nor skipped: buildDataTable indexes the header row out of range at
\* that row and the conversion ends there.
C10_LongRowPanics ==
    /\ \A r \in LongRows(rows0) : rowIndex < r
    /\ LongRows(rows0) # {} => tpc # "returned"
    /\ tpc = "panic" => /\ rowIndex + 1 \in LongRows(rows0)
                        /\ Len(dataTable) = rowIndex - 1

C10_Witness ==
    tpc = "panic" /\ rowIndex + 1 \in LongRows(rows0) /\ Len(rows0[1]) > 0

(***************************************************************************)
(* The XML batch runner: processFilesConcurrently starts one formatXmlFile *)
(* goroutine per TargetFile, a goroutine that waits for all of them and    *)
(* closes the channel, and then ranges over the channel.  Every file       *)
(* operation of a goroutine may fail.  Steps that touch nothing another    *)
(* goroutine can see are taken together: the token loop with the encoder   *)
(* flush, and the buffered write with its flush.                           *)
(***************************************************************************)
Files == 1..xmlFiles

\* go formatXmlFile(&xmlFiles[i], ...): the TargetFile goroutine i works on
targetOf_shared(i) == 1

targetOf(i) == i

\* handleError: target.Err = err, then errChan <- target, which stays
\* pending while the buffer is full
handleError(i, resume) ==
    /\ Err' = [Err EXCEPT ![targetOf(i)] = "err"]
    /\ failed' = failed \cup {i}
    /\ wpc' = [wpc EXCEPT ![i] = "send"]
    /\ wnext' = [wnext EXCEPT ![i] = resume]

\* a step of goroutine i that succeeded and goes on at pc
proceed(i, pc) ==
    /\ wpc' = [wpc EXCEPT ![i] = pc]
    /\ UNCHANGED <<wnext, Err, failed>>

InitBatch ==
    /\ xmlFiles \in 0..MaxFiles
    /\ wpc = [i \in 1..xmlFiles |-> "go"]
    /\ wnext = [i \in 1..xmlFiles |-> "none"]
    /\ Err = [i \in 1..xmlFiles |-> "nil"]
    /\ disk = [i \in 1..xmlFiles |-> "original"]
    /\ logged = [i \in 1..xmlFiles |-> <<>>]
    /\ failed = {} /\ result = <<>> /\ closed = FALSE /\ wg = 0
    /\ mpc = "add" /\ kpc = "go"
    /\ IdleHeaders /\ IdleCoerce /\ IdleTable /\ IdleCli /\ IdleXlsx /\ IdleCsv

\* result := make(chan *TargetFile, len(xmlFiles)); wg.Add(len(xmlFiles))
WgAdd_short ==
    /\ mpc = "add"
    /\ wg' = IF xmlFiles > 0 THEN xmlFiles - 1 ELSE 0
    /\ mpc' = "loop"
    /\ UNCHANGED <<xmlFiles, wpc, wnext, Err, disk, failed, result, closed,
                   kpc, logged, notBatch>>

WgAdd ==
    /\ mpc = "add"
    /\ wg' = xmlFiles
    /\ mpc' = "loop"
    /\ UNCHANGED <<xmlFiles, wpc, wnext, Err, disk, failed, result, closed,
                   kpc, logged, notBatch>>

\* go formatXmlFile(&xmlFiles[i], result, &wg), in index order
GoFormatXmlFile(i) ==
    /\ mpc = "loop"
    /\ wpc[i] = "go"
    /\ \A j \in 1..(i - 1) : wpc[j] # "go"
    /\ wpc' = [wpc EXCEPT ![i] = "open"]
    /\ UNCHANGED <<xmlFiles, wnext, Err, disk, failed, result, closed, wg,
                   mpc, kpc, logged, notBatch>>

\* go func() { wg.Wait(); close(result) }(), after which the function
\* returns into its deferred range loop
GoWaitAndClose ==
    /\ mpc = "loop"
    /\ \A i \in Files : wpc[i] # "go"
    /\ kpc' = "wait"
    /\ mpc' = "range"
    /\ UNCHANGED <<xmlFiles, wpc, wnext, Err, disk, failed, result, closed,
                   wg, logged, notBatch>>

\* wg.Wait() returns once the counter is zero; close(result)
WaitAndClose ==
    /\ kpc = "wait"
    /\ wg = 0
    /\ closed' = TRUE
    /\ kpc' = "done"
    /\ UNCHANGED <<xmlFiles, wpc, wnext, Err, disk, failed, result, wg, mpc,
                   logged, notBatch>>

\* for r := range res: one receive, logged by the value r.Err has then
Receive ==
    /\ mpc = "range"
    /\ result # <<>>
    /\ logged' = [logged EXCEPT ![Head(result)] = Append(@, Err[Head(result)])]
    /\ result' = Tail(result)
    /\ UNCHANGED <<xmlFiles, wpc, wnext, Err, disk, failed, closed, wg, mpc,
                   kpc, notBatch>>

\* the range loop ends when the channel is closed and drained
RangeEnd_whenEmpty ==
    /\ mpc = "range"
    /\ result = <<>>
    /\ mpc' = "returned"
    /\ UNCHANGED <<xmlFiles, wpc, wnext, Err, disk, failed, result, closed,
                   wg, kpc, logged, notBatch>>

RangeEnd ==
    /\ mpc = "range"
    /\ result = <<>>
    /\ closed
    /\ mpc' = "returned"
    /\ UNCHANGED <<xmlFiles, wpc, wnext, Err, disk, failed, result, closed,
                   wg, kpc, logged, notBatch>>

\* file, err := os.Open(target.Path)
Open(i) ==
    /\ wpc[i] = "open"
    /\ \/ handleError(i, "wgDone")
       \/ proceed(i, "encode")
    /\ UNCHANGED <<xmlFiles, disk, result, closed, wg, mpc, kpc, logged,
                   notBatch>>

\* for { decoder.Token(); encoder.EncodeToken(t) }; encoder.Flush(): the
\* document is re-encoded in memory, the file is only read
Encode_truncating(i) ==
    /\ wpc[i] = "encode"
    /\ \/ handleError(i, "closeFile")
       \/ proceed(i, "create")
    /\ disk' = [disk EXCEPT ![i] = "truncated"]
    /\ UNCHANGED <<xmlFiles, result, closed, wg, mpc, kpc, logged, notBatch>>

Encode(i) ==
    /\ wpc[i] = "encode"
    /\ \/ handleError(i, "closeFile")
       \/ proceed(i, "create")
    /\ UNCHANGED <<xmlFiles, disk, result, closed, wg, mpc, kpc, logged,
                   notBatch>>

\* outFile, err := os.Create(target.Path): truncates the file when it works
Create(i) ==
    /\ wpc[i] = "create"
    /\ \/ handleError(i, "closeFile") /\ UNCHANGED disk
       \/ proceed(i, "write") /\ disk' = [disk EXCEPT ![i] = "truncated"]
    /\ UNCHANGED <<xmlFiles, result, closed, wg, mpc, kpc, logged, notBatch>>

\* writer.Write(buf.Bytes()); writer.Flush(); on success the final
\* errChan <- target
Write(i) ==
    /\ wpc[i] = "write"
    /\ \/ handleError(i, "closeOut") /\ UNCHANGED disk
       \/ /\ disk' = [disk EXCEPT ![i] = "formatted"]
          /\ wpc' = [wpc EXCEPT ![i] = "send"]
          /\ wnext' = [wnext EXCEPT ![i] = "closeOut"]
          /\ UNCHANGED <<Err, failed>>
    /\ UNCHANGED <<xmlFiles, result, closed, wg, mpc, kpc, logged, notBatch>>

\* errChan <- target: completes when the buffer has room
Send(i) ==
    /\ wpc[i] = "send"
    /\ Len(result) < xmlFiles
    /\ result' = Append(result, targetOf(i))
    /\ wpc' = [wpc EXCEPT ![i] = wnext[i]]
    /\ wnext' = [wnext EXCEPT ![i] = "none"]
    /\ UNCHANGED <<xmlFiles, Err, disk, failed, closed, wg, mpc, kpc, logged,
                   notBatch>>

\* deferred: outFile.Close()
CloseOutFile(i) ==
    /\ wpc[i] = "closeOut"
    /\ \/ handleError(i, "closeFile")
       \/ proceed(i, "closeFile")
    /\ UNCHANGED <<xmlFiles, disk, result, closed, wg, mpc, kpc, logged,
                   notBatch>>

\* deferred: file.Close()
CloseFile(i) ==
    /\ wpc[i] = "closeFile"
    /\ \/ handleError(i, "wgDone")
       \/ proceed(i, "wgDone")
    /\ UNCHANGED <<xmlFiles, disk, result, closed, wg, mpc, kpc, logged,
                   notBatch>>

\* deferred first, so run last: wg.Done()
WgDone_notDeferred(i) ==
    /\ wpc[i] = "wgDone"
    /\ wg' = IF i \in failed THEN wg ELSE wg - 1
    /\ wpc' = [wpc EXCEPT ![i] = "done"]
    /\ UNCHANGED <<xmlFiles, wnext, Err, disk, failed, result, closed, mpc,
                   kpc, logged, notBatch>>

WgDone(i) ==
    /\ wpc[i] = "wgDone"
    /\ wg' = wg - 1
    /\ wpc' = [wpc EXCEPT ![i] = "done"]
    /\ UNCHANGED <<xmlFiles, wnext, Err, disk, failed, result, closed, mpc,
                   kpc, logged, notBatch>>

formatXmlFile(i) ==
    \/ Open(i) \/ Encode(i) \/ Create(i) \/ Write(i) \/ Send(i)
    \/ CloseOutFile(i) \/ CloseFile(i) \/ WgDone(i)

processFilesConcurrently ==
    \/ WgAdd
    \/ \E i \in Files : GoFormatXmlFile(i)
    \/ GoWaitAndClose
    \/ Receive
    \/ RangeEnd

NextBatch ==
    \/ processFilesConcurrently
    \/ \E i \in Files : formatXmlFile(i)
    \/ WaitAndClose

SpecBatch == InitBatch /\ [][NextBatch]_vars

\* The Go scheduler runs a goroutine that can run: while some goroutine can
\* take a step, some step is taken.
SpecBatchFair == SpecBatch /\ WF_vars(NextBatch)

\* C11: when the batch run has returned, the collecting loop has logged
\* exactly one outcome per file: a failure for each file whose processing
\* failed and a success for each other file.
C11_ExactlyOneOutcomePerFile ==
    mpc = "returned" =>
        \A i \in Files : /\ Len(logged[i]) = 1
                         /\ logged[i][1] = "err" <=> i \in failed

\* C12: a failure in one file's goroutine neither blocks nor cancels the
\* others: a TargetFile carries an error only if its own goroutine failed,
\* the run can only come to rest by returning, and when it has returned
\* every goroutine has run to its end and every file has been logged, a file
\* whose own processing did not fail as a success only.
C12_SiblingsUnaffected ==
    /\ \A i \in Files : Err[i] = "err" => i \in failed
    /\ ~ ENABLED NextBatch => mpc = "returned"
    /\ mpc = "returned" =>
           \A i \in Files :
               /\ wpc[i] = "done"
               /\ logged[i] # <<>>
               /\ i \notin failed => \A k \in DOMAIN logged[i] : logged[i][k] = "nil"

C12_Witness ==
    /\ mpc = "returned" /\ xmlFiles = 2
    /\ failed = {1} /\ "err" \in Range(logged[1])
    /\ logged[2] = <<"nil">> /\ disk[2] = "formatted"

(***************************************************************************)
(* Exit codes (pkg/helpers), the path helpers and the files the tools are  *)
(* run against                                                             *)
(***************************************************************************)
Success == 0
ErrWriteFile == 2
ErrReadWrite == 3
ErrMoveFile == 4
ErrStdin == 5
ErrStdout == 6
ErrNoInput == 7
ErrNoFile == 8
ErrInvalidFileType == 9
ErrParse == 10

\* strings.TrimSpace
TrimSpace(s) ==
    LET kept == {k \in DOMAIN s : s[k] \notin {" ", "\n"}}
    IN  IF kept = {} THEN <<>>
        ELSE SubSeq(s, CHOOSE a \in kept : \A k \in kept : a <= k,
                       CHOOSE b \in kept : \A k \in kept : b >= k)

\* reader.ReadString('\n'): the bytes up to and including the first newline,
\* or everything there is together with io.EOF when there is no newline
ReadString(stdin) ==
    LET nl == {k \in DOMAIN stdin : stdin[k] = "\n"}
    IN  IF nl = {} THEN [input |-> stdin, err |-> TRUE]
        ELSE [input |-> SubSeq(stdin, 1, CHOOSE a \in nl : \A k \in nl : a <= k),
              err |-> FALSE]

\* filepath.Ext: the suffix from the last dot of the last path element
Ext(path) ==
    LET dots == {k \in DOMAIN path :
                    path[k] = "." /\ \A j \in k..Len(path) : path[j] # "/"}
    IN  IF dots = {} THEN <<>>
        ELSE SubSeq(path, CHOOSE b \in dots : \A k \in dots : b >= k, Len(path))

CheckExtension(path, extension) == Ext(path) = extension

xlsx == <<".", "x", "l", "s", "x">>

csv == <<".", "c", "s", "v">>

\* The files on disk.  b.xlsx and o.xlsm are workbooks with the sheets
\* Main, S and Data, in that order; n.txt and n.xlsx are no workbooks;
\* d.csv is the CSV file.
Sheets == << <<"M", "a", "i", "n">>, <<"S">>, <<"D", "a", "t", "a">> >>

FileSystem ==
    [p \in {<<"b">> \o xlsx, <<"o", ".", "x", "l", "s", "m">>,
            <<"n", ".", "t", "x", "t">>, <<"n">> \o xlsx, <<"d">> \o csv} |->
        [workbook |-> p[1] \in {"b", "o"}]]

\* os.Stat(path) succeeds
PathExists(path) == path \in DOMAIN FileSystem

\* parseXlsxFile: open the workbook, pick the sheet, marshal its rows.  The
\* document always has its root element; it is modelled as that element
\* with the name of the sheet whose rows it was built from.
parseXlsxFile(path, targetSheet, closeFails) ==
    IF ~ PathExists(path) \/ ~ FileSystem[path].workbook
    THEN [output |-> <<>>, parseErr |-> TRUE]
    ELSE LET sheet == IF Len(targetSheet) > 1 THEN targetSheet ELSE Sheets[1]
         IN  IF sheet \notin Range(Sheets)
             THEN [output |-> <<>>, parseErr |-> TRUE]
             ELSE [output |-> <<"DataTable", sheet>>, parseErr |-> closeFails]

\* Paths given on the command line or on stdin: the files on disk, one that
\* does not exist, one padded with a blank, and none at all
Paths ==
    DOMAIN FileSystem \cup {<<>>, <<"m">> \o xlsx, <<" ", "b">> \o xlsx}

(***************************************************************************)
(* The xlsx tool: main of cmd/xlsx-tools/parse-xml                         *)
(***************************************************************************)
InitXlsx ==
    /\ args \in [path : Paths,
                 sheet : {<<>>, <<"S">>, <<"X">>, Sheets[3], <<"N", "o">>}]
    /\ env \in [pipe : BOOLEAN,
                stdin : {<<>>, <<"b">> \o xlsx, <<"b">> \o xlsx \o <<"\n">>,
                         <<"m">> \o xlsx \o <<"\n">>},
                closeFails : BOOLEAN, writeFails : BOOLEAN]
    /\ stdinRead = FALSE /\ filePath = <<>> /\ code = Success
    /\ sheetName = <<>> /\ inputErr = FALSE /\ output = <<>>
    /\ parseErr = FALSE /\ stdout = <<>> /\ xpc = "getInput"
    /\ IdleHeaders /\ IdleCoerce /\ IdleTable /\ IdleBatch /\ IdleCsv

\* filePath, sheetName, inputErr := getInput()
GetInput ==
    /\ xpc = "getInput"
    /\ sheetName' = args.sheet
    /\ IF Len(args.path) > 0
       THEN /\ filePath' = TrimSpace(args.path)
            /\ UNCHANGED <<inputErr, stdinRead>>
       ELSE IF env.pipe
       THEN /\ stdinRead' = TRUE
            /\ inputErr' = ReadString(env.stdin).err
            /\ filePath' = IF ReadString(env.stdin).err THEN <<>>
                           ELSE TrimSpace(ReadString(env.stdin).input)
       ELSE UNCHANGED <<filePath, inputErr, stdinRead>>
    /\ xpc' = "input"
    /\ UNCHANGED <<args, env, code, output, parseErr, stdout, notXlsx>>

\* if inputErr != nil { ErrStdin }; if len(filePath) < 1 { ErrNoInput }
CheckInput ==
    /\ xpc = "input"
    /\ code' = IF Len(filePath) < 1 THEN ErrNoInput
               ELSE IF inputErr THEN ErrStdin ELSE code
    /\ xpc' = "path"
    /\ UNCHANGED <<args, env, stdinRead, filePath, sheetName, inputErr,
                   output, parseErr, stdout, notXlsx>>

\* exists, pathErr := PathExists(filePath)
CheckPath ==
    /\ xpc = "path"
    /\ code' = IF ~ PathExists(filePath) THEN ErrNoFile ELSE code
    /\ xpc' = "type"
    /\ UNCHANGED <<args, env, stdinRead, filePath, sheetName, inputErr,
                   output, parseErr, stdout, notXlsx>>

\* if !isXlsxFile(filePath)
CheckType ==
    /\ xpc = "type"
    /\ code' = IF ~ CheckExtension(filePath, xlsx) THEN ErrInvalidFileType
               ELSE code
    /\ xpc' = "parse"
    /\ UNCHANGED <<args, env, stdinRead, filePath, sheetName, inputErr,
                   output, parseErr, stdout, notXlsx>>

\* output, parseErr := parseXlsxFile(filePath, sheetName)
CallParseXlsxFile ==
    /\ xpc = "parse"
    /\ output' = parseXlsxFile(filePath, sheetName, env.closeFails).output
    /\ parseErr' = parseXlsxFile(filePath, sheetName, env.closeFails).parseErr
    /\ xpc' = "parsed"
    /\ UNCHANGED <<args, env, stdinRead, filePath, code, sheetName, inputErr,
                   stdout, notXlsx>>

\* if parseErr != nil { ErrParse } else { os.Stdout.Write(output) }
WriteOutput ==
    /\ xpc = "parsed"
    /\ IF parseErr
       THEN code' = ErrParse /\ UNCHANGED stdout
       ELSE IF env.writeFails
       THEN code' = ErrStdout /\ UNCHANGED stdout
       ELSE stdout' = output /\ UNCHANGED code
    /\ xpc' = "exit"
    /\ UNCHANGED <<args, env, stdinRead, filePath, sheetName, inputErr,
                   output, parseErr, notXlsx>>

\* deferred: processingErr.Exit(): when e.Err is not nil (it is nil for
\* ErrNoInput and for a path that simply does not exist) fmt.Printf writes
\* the diagnostic to stdout, then os.Exit(e.Code)
Exit ==
    /\ xpc = "exit"
    /\ stdout' = IF code \in {ErrStdin, ErrInvalidFileType, ErrParse}
                 THEN Append(stdout, "An error occured!")
                 ELSE stdout
    /\ xpc' = "exited"
    /\ UNCHANGED <<args, env, stdinRead, filePath, code, sheetName, inputErr,
                   output, parseErr, notXlsx>>

NextXlsx ==
    \/ GetInput \/ CheckInput \/ CheckPath \/ CheckType
    \/ CallParseXlsxFile \/ WriteOutput \/ Exit

SpecXlsx == InitXlsx /\ [][NextXlsx]_vars

\* C13: when an input check of the xlsx tool fails, the process exits with
\* that check's own code: ErrNoInput when no path was provided, ErrNoFile
\* when the path does not exist, ErrInvalidFileType when the extension is not
\* .xlsx, and ErrParse only when an existing .xlsx file failed to parse; the
\* four codes are pairwise distinct and none is zero.
C13_ExitsWithTheFailedChecksCode ==
    /\ Cardinality({ErrNoInput, ErrNoFile, ErrInvalidFileType, ErrParse}) = 4
    /\ Success \notin {ErrNoInput, ErrNoFile, ErrInvalidFileType, ErrParse}
    /\ xpc = "exited" /\ ~ inputErr =>
        /\ Len(filePath) < 1 => code = ErrNoInput
        /\ Len(filePath) >= 1 /\ ~ PathExists(filePath) => code = ErrNoFile
        /\ PathExists(filePath) /\ ~ CheckExtension(filePath, xlsx) =>
               code = ErrInvalidFileType /\ stdout = <<>>
        /\ code = ErrParse =>
               PathExists(filePath) /\ CheckExtension(filePath, xlsx) /\ parseErr

\* C18: the document parseXlsxFile returns is built from the named sheet
\* whenever a non-empty sheet name was given, a one-character name included,
\* and from the first sheet only when no sheet name was given.
C18_NamedSheetIsRead ==
    xpc = "parsed" /\ output # <<>> =>
        output[2] = IF sheetName # <<>> THEN sheetName ELSE Sheets[1]

\* C19: parseXlsxFile returns an error and no output when the file cannot be
\* opened or the named sheet does not exist, and a non-empty document with
\* no error for a workbook and a sheet that exist.
C19_ErrorOrDocument ==
    LET opens == PathExists(filePath) /\ FileSystem[filePath].workbook
        sheetExists == sheetName = <<>> \/ sheetName \in Range(Sheets)
    IN  xpc = "parsed" =>
            /\ ~ opens \/ ~ sheetExists => parseErr /\ output = <<>>
            /\ opens /\ sheetExists /\ ~ env.closeFails =>
                   ~ parseErr /\ output # <<>>

(***************************************************************************)
(* The CSV duplicate-rename tool: main, processCSV, readWriteCsv and       *)
(* MoveFile of cmd/csv-tools/rename-dupe-cols.  Every file operation may   *)
(* fail.                                                                   *)
(***************************************************************************)
\* CSV files: empty, or a header of two names followed by data records
CsvFiles ==
    {<<>>} \cup
    {<<h>> \o d : h \in [1..2 -> {Name, Age}],
                  d \in SeqsUpTo({<<v1, v1>>, <<v1, v2>>}, MaxRecords)}

InitCsv ==
    /\ args \in [path : {<<>>, <<"d">> \o csv, <<"m">> \o csv,
                         <<"n", ".", "t", "x", "t">>}]
    /\ env \in [pipe : BOOLEAN,
                stdin : {<<>>, <<"d">> \o csv, <<"d">> \o csv \o <<"\n">>}]
    /\ orig0 \in CsvFiles
    /\ orig = [exists |-> TRUE, records |-> orig0]
    /\ temp = [exists |-> FALSE, records |-> <<>>]
    /\ stdinRead = FALSE /\ filePath = <<>> /\ code = Success
    /\ lineCount = 0 /\ fault = "none" /\ ypc = "main"
    /\ IdleHeaders /\ IdleCoerce /\ IdleTable /\ IdleBatch /\ IdleXlsx

\* an operation failed and the tool ends with code c
failWith(op, c) ==
    /\ fault' = IF fault = "none" THEN op ELSE fault
    /\ code' = c
    /\ ypc' = "exit"

\* main: the pipe is looked at first, the --path flag second; after a
\* failed read processingErr is set to ErrStdin and processCSV is called
\* all the same, its result assigned over it
Main ==
    /\ ypc = "main"
    /\ IF env.pipe
       THEN /\ stdinRead' = TRUE
            /\ filePath' = TrimSpace(ReadString(env.stdin).input)
            /\ code' = IF ReadString(env.stdin).err THEN ErrStdin ELSE code
            /\ ypc' = "exists"
       ELSE IF args.path # <<>>
       THEN /\ filePath' = args.path
            /\ ypc' = "exists"
            /\ UNCHANGED <<stdinRead, code>>
       ELSE /\ code' = ErrNoInput
            /\ ypc' = "exit"
            /\ UNCHANGED <<stdinRead, filePath>>
    /\ UNCHANGED <<args, env, orig0, orig, temp, lineCount, fault, notCsv>>

\* processCSV: PathExists(path), then CheckExtension(path, ".csv")
CheckFile ==
    /\ ypc = "exists"
    /\ IF ~ PathExists(filePath)
       THEN code' = ErrNoFile /\ ypc' = "exit"
       ELSE IF ~ CheckExtension(filePath, csv)
       THEN code' = ErrInvalidFileType /\ ypc' = "exit"
       ELSE ypc' = "open" /\ UNCHANGED code
    /\ UNCHANGED <<args, env, stdinRead, filePath, orig0, orig, temp,
                   lineCount, fault, notCsv>>

\* readWriteCsv: os.Open(path), then os.CreateTemp; tempCsv.Name() on the
\* nil file of a failed CreateTemp is a nil dereference, and the panic
\* unwinds into main's deferred Exit with processingErr as it stands
OpenFiles ==
    /\ ypc = "open"
    /\ \/ failWith("open", ErrReadWrite) /\ UNCHANGED temp
       \/ /\ fault' = "createTemp" /\ ypc' = "exit"
          /\ UNCHANGED <<code, temp>>
       \/ /\ temp' = [exists |-> TRUE, records |-> <<>>]
          /\ ypc' = "read"
          /\ UNCHANGED <<code, fault>>
    /\ UNCHANGED <<args, env, stdinRead, filePath, orig0, orig, lineCount,
                   notCsv>>

\* one turn of the loop: reader.Read(); any error ends the loop like io.EOF
\* does; the first record goes through RenameDuplicates; writer.Write
ReadWriteRecord ==
    /\ ypc = "read"
    /\ \/ /\ lineCount < Len(orig0)
          /\ fault' = "read" /\ ypc' = "return"
          /\ UNCHANGED <<temp, lineCount, code>>
       \/ /\ lineCount = Len(orig0)
          /\ ypc' = "return"
          /\ UNCHANGED <<temp, lineCount, code, fault>>
       \/ /\ lineCount < Len(orig0)
          /\ failWith("write", ErrReadWrite)
          /\ UNCHANGED <<temp, lineCount>>
       \/ /\ lineCount < Len(orig0)
          /\ LET record == IF lineCount = 0
                           THEN RenameDuplicates(orig0[1])
                           ELSE orig0[lineCount + 1]
             IN  temp' = [temp EXCEPT !.records = Append(@, record)]
          /\ lineCount' = lineCount + 1
          /\ UNCHANGED <<code, fault, ypc>>
    /\ UNCHANGED <<args, env, stdinRead, filePath, orig0, orig, notCsv>>

\* return tempCsv.Name(), nil: the deferred writer.Flush() runs, its error
\* unseen, and the records still in the writer's buffer are lost with it
ReturnTemp ==
    /\ ypc = "return"
    /\ \/ UNCHANGED <<temp, fault>>
       \/ /\ temp.records # <<>>
          /\ temp' = [temp EXCEPT !.records = <<>>]
          /\ fault' = IF fault = "none" THEN "flush" ELSE fault
    /\ ypc' = "remove"
    /\ UNCHANGED <<args, env, stdinRead, filePath, code, orig0, orig,
                   lineCount, notCsv>>

\* removeErr := os.Remove(path)
RemoveOriginal ==
    /\ ypc = "remove"
    /\ \/ failWith("remove", ErrWriteFile) /\ UNCHANGED orig
       \/ /\ orig' = [exists |-> FALSE, records |-> <<>>]
          /\ ypc' = "move"
          /\ UNCHANGED <<code, fault>>
    /\ UNCHANGED <<args, env, stdinRead, filePath, orig0, temp, lineCount,
                   notCsv>>

\* moveErr := MoveFile(tempFile, path), and processCSV's return.  Inside the
\* two error branches err is declared anew by the Close call, so what is
\* returned there is the result of that Close.
MoveFile ==
    /\ ypc = "move"
    /\ \/ \* os.Open(src) fails
          failWith("moveOpen", ErrMoveFile) /\ UNCHANGED <<orig, temp>>
       \/ \* os.Create(dst) fails; originalFile.Close() fails or not
          /\ \E closeFails \in BOOLEAN :
                failWith("moveCreate",
                         IF closeFails THEN ErrMoveFile ELSE Success)
          /\ UNCHANGED <<orig, temp>>
       \/ \* io.Copy fails part of the way; the Close calls fail or not
          /\ \E closeFails \in BOOLEAN :
                failWith("moveCopy",
                         IF closeFails THEN ErrMoveFile ELSE Success)
          /\ \E k \in 0..Len(temp.records) :
                orig' = [exists |-> TRUE,
                         records |-> SubSeq(temp.records, 1, k)]
          /\ UNCHANGED temp
       \/ \* os.Remove(src) fails
          /\ failWith("moveRemove", ErrMoveFile)
          /\ orig' = [exists |-> TRUE, records |-> temp.records]
          /\ UNCHANGED temp
       \/ /\ orig' = [exists |-> TRUE, records |-> temp.records]
          /\ temp' = [exists |-> FALSE, records |-> <<>>]
          /\ code' = Success
          /\ ypc' = "exit"
          /\ UNCHANGED fault
    /\ UNCHANGED <<args, env, stdinRead, filePath, orig0, lineCount, notCsv>>

\* deferred: processingErr.Exit()
CsvExit ==
    /\ ypc = "exit"
    /\ ypc' = "exited"
    /\ UNCHANGED <<args, env, stdinRead, filePath, code, orig0, orig, temp,
                   lineCount, fault, notCsv>>

NextCsv ==
    \/ Main \/ CheckFile \/ OpenFiles \/ ReadWriteRecord \/ ReturnTemp
    \/ RemoveOriginal \/ MoveFile \/ CsvExit

SpecCsv == InitCsv /\ [][NextCsv]_vars

\* C14: when the --path flag is supplied it is the input path and stdin is
\* not read; stdin is read only when the flag is absent and stdin is a pipe.
C14_FlagBeforeStdin ==
    ypc \notin {"idle", "main"} =>
        /\ args.path # <<>> => ~ stdinRead /\ filePath = args.path
        /\ stdinRead => args.path = <<>> /\ env.pipe

\* C15: when reading the path from piped stdin fails, the CSV tool does not
\* process the file and exits with ErrStdin.
C15_StdinFailureExitsErrStdin ==
    ypc = "exited" /\ stdinRead /\ ReadString(env.stdin).err =>
        /\ code = ErrStdin
        /\ orig = [exists |-> TRUE, records |-> orig0]
        /\ ~ temp.exists

\* C16: when MoveFile cannot create the destination or the copy fails,
\* processCSV ends with ErrMoveFile, never with Success.
C16_MoveFailureExitsErrMoveFile ==
    ypc = "exited" /\ fault \in {"moveCreate", "moveCopy"} =>
        code = ErrMoveFile

\* C17: when reading a record fails with an error other than io.EOF, the
\* tool ends with ErrReadWrite and the original file is neither removed nor
\* replaced.
C17_ReadFailureKeepsOriginal ==
    ypc = "exited" /\ fault = "read" =>
        /\ code = ErrReadWrite
        /\ orig = [exists |-> TRUE, records |-> orig0]

\* C20: what readWriteCsv has written when it returns without an error is
\* exactly the records of the original file, in order and each with its
\* fields: the header as RenameDuplicates returns it, every later record
\* unchanged.
C20_RecordsKept ==
    ypc = "remove" =>
        /\ Len(temp.records) = Len(orig0)
        /\ \A k \in DOMAIN orig0 :
               temp.records[k] = IF k = 1 THEN RenameDuplicates(orig0[1])
                                 ELSE orig0[k]

\* C21: the result channel is closed by the one close of the waiting
\* goroutine, and only when every formatXmlFile goroutine has run to its end
\* (the WaitGroup counter is zero): no goroutine has a send pending or still
\* ahead of it once the channel is closed.
C21_ClosedOnlyAfterAllDone ==
    /\ closed <=> kpc = "done"
    /\ closed => /\ wg = 0
                 /\ \A i \in Files : wpc[i] = "done"

C21_Witness ==
    /\ closed /\ xmlFiles = 2 /\ mpc = "range"
    /\ failed = {2} /\ Len(result) = 2

\* C22: under fair scheduling, for every batch size (the empty batch
\* included) and every failure pattern, the run comes to the point where
\* every goroutine has finished, the channel is closed and drained, and the
\* range loop has ended: nothing is left blocked.
C22_EventuallyDrained ==
    <>[](/\ mpc = "returned" /\ closed /\ result = <<>>
         /\ \A i \in Files : wpc[i] = "done" /\ logged[i] # <<>>)

C22_Witness ==
    /\ mpc = "returned" /\ xmlFiles = 2 /\ failed = {1, 2}
    /\ Len(logged[1]) > 1 /\ result = <<>>

(***************************************************************************)
(* The streaming variant of the xlsx conversion (unnamed/part_001):        *)
(* buildDataTable walks an excelize.Rows iterator, rows.Columns() may fail *)
(* at any row, and parseXlsxFile marshals whatever buildDataTable returns. *)
(* rows holds what the iterator yields; every Columns() result is a fresh  *)
(* slice.                                                                  *)
(***************************************************************************)
notStream ==
    <<headerVars, coerceVars, batchVars, rowsNil, rows0, args, env,
      stdinRead, filePath, sheetName, inputErr, xpc, orig0, orig, temp,
      lineCount, ypc>>

InitStream ==
    /\ rows \in Tables
    /\ rows0 = rows /\ rowsNil = FALSE /\ rowIndex = 0 /\ dataTable = <<>>
    /\ tpc = "next"
    /\ IdleHeaders /\ IdleCoerce /\ IdleTools

\* for rows.Next() { columns, colErr := rows.Columns() ... rowIndex++ }
StreamRow ==
    /\ tpc = "next"
    /\ rowIndex < Len(rows)
    /\ \/ \* colErr != nil: return DataTable{}
          /\ fault' = "columns"
          /\ dataTable' = <<>>
          /\ tpc' = "built"
          /\ UNCHANGED rowIndex
       \/ \* the header row
          /\ rowIndex = 0
          /\ rowIndex' = 1
          /\ UNCHANGED <<dataTable, tpc, fault>>
       \/ \* a data row
          /\ rowIndex > 0
          /\ LET renamed == RenameDuplicates(rows[1])
                 headerRow == [k \in DOMAIN renamed |-> FixXMLTags(renamed[k])]
                 dataRow == buildDataRow(headerRow, rows[rowIndex + 1])
             IN  IF dataRow.panic
                 THEN tpc' = "panic" /\ UNCHANGED <<rowIndex, dataTable>>
                 ELSE /\ dataTable' = Append(dataTable, dataRow.Columns)
                      /\ rowIndex' = rowIndex + 1
                      /\ UNCHANGED tpc
          /\ UNCHANGED fault
    /\ UNCHANGED <<rows, code, output, parseErr, stdout, notStream>>

\* rows.Next() is false: return dataTable
StreamEnd ==
    /\ tpc = "next"
    /\ rowIndex = Len(rows)
    /\ tpc' = "built"
    /\ UNCHANGED <<rows, rowIndex, dataTable, fault, code, output, parseErr,
                   stdout, notStream>>

\* xml.MarshalIndent(buildDataTable(rows), "", "  "); return output, nil;
\* the deferred file.Close() sets parseErr when it fails
MarshalDataTable ==
    /\ tpc = "built"
    /\ output' = <<"DataTable", dataTable>>
    /\ parseErr' \in BOOLEAN
    /\ tpc' = "parsed"
    /\ UNCHANGED <<rows, rowIndex, dataTable, fault, code, stdout, notStream>>

\* main: ErrParse, or os.Stdout.Write(output); the deferred Exit prints
\* the diagnostic of a parse error
WriteStream ==
    /\ tpc = "parsed"
    /\ IF parseErr
       THEN code' = ErrParse /\ stdout' = <<"An error occured!">>
       ELSE stdout' = output /\ UNCHANGED code
    /\ tpc' = "exited"
    /\ UNCHANGED <<rows, rowIndex, dataTable, fault, output, parseErr,
                   notStream>>

NextStream == StreamRow \/ StreamEnd \/ MarshalDataTable \/ WriteStream

SpecStream == InitStream /\ [][NextStream]_vars

\* C23: when reading the columns of a row failed, the conversion ends with
\* a nonzero code and has written no document.
C23_ColumnErrorSurfaces ==
    tpc = "exited" /\ fault = "columns" =>
        code # Success /\ stdout[1] # "DataTable"

\* C24: when reading or encoding a token fails, the goroutine records the
\* error for its file and goes on to its deferred file.Close() only, and
\* the file on disk is as it was: the file is changed by os.Create and the
\* write alone, which come after the whole document has been encoded.
C24_TokenFailureLeavesFile ==
    [][\A i \in Files :
          /\ wpc[i] = "encode" /\ wpc'[i] = "send" =>
                 /\ Err'[i] = "err" /\ wnext'[i] = "closeFile"
                 /\ disk'[i] = "original"
          /\ disk'[i] # disk[i] => wpc[i] \in {"create", "write"}
          /\ wpc[i] \in {"go", "open", "encode", "create"} =>
                 disk[i] = "original"]_vars

C24_Witness ==
    /\ xmlFiles = 2 /\ wpc[1] = "done" /\ failed = {1}
    /\ disk[1] = "original" /\ logged[1] = <<"err">>
    /\ disk[2] = "formatted"

\* C25: a goroutine writes the Err field of its TargetFile only before it
\* has sent that TargetFile: whenever a goroutine has just written Err and
\* its send is pending, the TargetFile is neither in the channel nor logged.
C25_NoWriteAfterSend ==
    \A i \in Files :
        wpc[i] = "send" /\ Err[i] = "err" =>
            i \notin Range(result) /\ logged[i] = <<>>

\* C26: processFilesConcurrently has returned only when every goroutine has
\* finished, the channel is closed and empty, and every file it was sent
\* for has been logged.
C26_ReturnsAfterDrain ==
    mpc = "returned" =>
        /\ closed /\ result = <<>> /\ kpc = "done"
        /\ \A i \in Files : wpc[i] = "done" /\ Len(logged[i]) >= 1

C26_Witness ==
    /\ mpc = "returned" /\ xmlFiles = 2 /\ failed = {}
    /\ logged = << <<"nil">>, <<"nil">> >>

\* C27: the channel never holds more than len(xmlFiles) outcomes and a
\* goroutine that is at a send finds room in it.
C27_SendNeverBlocks ==
    /\ Len(result) <= xmlFiles
    /\ \A i \in Files : wpc[i] = "send" => Len(result) < xmlFiles

\* C28: the original is removed only once readWriteCsv has returned, the
\* temp file is removed only once its content is at the original path, and
\* at every step one of the two paths holds a complete copy of the data:
\* the original records, or all of them as rewritten.
C28_CompleteCopyAlways ==
    LET rewritten == [k \in DOMAIN orig0 |->
                         IF k = 1 THEN RenameDuplicates(orig0[1]) ELSE orig0[k]]
    IN  ypc # "idle" =>
            /\ ~ orig.exists => ypc \in {"move", "exit", "exited"}
            /\ \/ orig.exists /\ orig.records \in {orig0, rewritten}
               \/ temp.exists /\ temp.records = rewritten

\* C29: the xlsx tool writes a document to stdout only when every input
\* check passed: on an exit with ErrNoInput, ErrNoFile, ErrInvalidFileType
\* or ErrStdin nothing has been written to stdout, and when a document has
\* been written the exit code is Success.
C29_DocumentOnlyAfterChecks ==
    xpc = "exited" =>
        /\ code \in {ErrNoInput, ErrNoFile, ErrInvalidFileType, ErrStdin} =>
               stdout = <<>>
        /\ stdout # <<>> /\ stdout[1] = "DataTable" => code = Success

\* C30: RenameDuplicates and cleanHeader rewrite the caller's header row in
\* place: when buildDataTable has returned, rows[0] holds the normalized
\* names, every Record names its columns by them, and every data row of the
\* input is as it was.
C30_HeaderRewrittenInPlace ==
    tpc = "returned" /\ ~rowsNil /\ Len(rows0) > 0 =>
        /\ Len(rows) = Len(rows0)
        /\ rows[1] = Normalized(rows0[1])
        /\ \A r \in 2..Len(rows0) : rows[r] = rows0[r]
        /\ \A r \in DOMAIN dataTable : \A j \in DOMAIN dataTable[r] :
               dataTable[r][j].XMLName = rows[1][j]

C30_Witness ==
    /\ tpc = "returned" /\ Len(rows0) > 1 /\ dataTable # <<>>
    /\ rows[1] # rows0[1] /\ Len(rows0[1]) = 2 /\ rows0[1][1] = rows0[1][2]

====
